---- MODULE Spec2Model ----
(***************************************************************************)
(* The follow / privacy core of the backend (backend/api/views.py and      *)
(* backend/api/models.py) as a state machine.                              *)
(*                                                                         *)
(* The database tables are the state.  No follow handler opens a           *)
(* transaction (only RegisterView.post carries @transaction.atomic), so    *)
(* every ORM statement of a mutating handler commits on its own and is one *)
(* step of the request that runs it; requests of different workers         *)
(* interleave between statements.  The read handlers change nothing and    *)
(* are taken at one instant.                                               *)
(*                                                                         *)
(* Every statement is written once, as a function from the database d and  *)
(* the request r that runs it to the database and the request after it.    *)
(* The actions apply these functions to the state; Path composes them into *)
(* the handler that runs with no other request in between.                 *)
(***************************************************************************)
EXTENDS Integers, Sequences, FiniteSets, TLC

\* ------------------------------------------------------------------ bounds
NumUsers == 2
NumWorkers == 2
MaxNotifs == 2
MaxPosts == 1
\* the most that Post.likes_count is let to reach
MaxCount == 3
\* the codes generate_otp_code can draw
NumCodes == 1
\* the OTP rows created after registration, the devices and the tokens
MaxOtps == 1
MaxDevices == 2
MaxTokens == 3
\* the periods of ten minutes that pass
MaxClock == 2

\* ------------------------------------------------------------- identities
Users == 1..NumUsers
Workers == 1..NumWorkers
\* request.user of a request that carries no credentials (AllowAny views)
Anonymous == 0
\* the ids a URL can carry: those of the users and one that names no row of User
UserIds == 1..(NumUsers + 1)
Viewers == Users \cup {Anonymous}
\* the ids of the rows Post can hold, and the ids a URL can carry
PostIds == 1..MaxPosts
PostUrlIds == 1..(MaxPosts + 1)

VARIABLES
  is_private,     \* User.is_private, by user id
  follows,        \* rows of Follow, as <<follower, followed>>
  requests,       \* rows of FollowRequest, as <<requester, recipient>>
  notifications,  \* rows of Notification, in order of creation
  posts,          \* rows of Post, in order of creation (the id is the index)
  pc,             \* per worker: the statement its request is at, "done" between requests
  op,             \* per worker: the handler it runs or last ran
  user,           \* per worker: request.user
  arg,            \* per worker: the id in the URL (user_id, requester_id, pk)
  snap,           \* per worker: is_private of the User instance it fetched
  resp,           \* per worker: the response of its last finished request
  likes,          \* rows of Like, as <<user, post id>>
  likes_count,    \* Post.likes_count, by post id
  count,          \* per worker: likes_count of the Post instance it fetched
  is_verified,    \* User.is_verified, by user id
  two_factor_enabled, \* User.two_factor_enabled, by user id
  otps,           \* rows of OTP, in order of creation
  devices,        \* rows of UserDevice, in order of creation (the id is the index)
  tokens,         \* the refresh tokens issued (rows of OutstandingToken; the id is the index)
  blacklist,      \* ids of the tokens blacklisted (rows of BlacklistedToken)
  now,            \* timezone.now(), in minutes
  token,          \* per worker: the token its request carries, or the one it has issued
  at              \* per worker: the value of now its request has read

\* the tables and locals of the like views
likeVars == <<likes, likes_count, count>>

\* the tables and locals of the account views
authVars == <<is_verified, two_factor_enabled, otps, devices, tokens, blacklist, now, token, at>>

vars == <<is_private, follows, requests, notifications, posts, pc, op, user, arg, snap, resp,
          likes, likes_count, count,
          is_verified, two_factor_enabled, otps, devices, tokens, blacklist, now, token, at>>

\* the database, and the request of worker w, as values
DB == [is_private |-> is_private, follows |-> follows, requests |-> requests,
       notifications |-> notifications, posts |-> posts]
Req(w) == [pc |-> pc[w], op |-> op[w], user |-> user[w], arg |-> arg[w],
           snap |-> snap[w], resp |-> resp[w]]

\* ------------------------------------------------------------- responses
Response(st, d) == [status |-> st, detail |-> d, list |-> {}]
ListResponse(s) == [status |-> 200, detail |-> "list", list |-> s]
\* an exception no handler catches: the server answers 500
ServerError(d) == [status |-> 500, detail |-> d, list |-> {}]

\* Notification.NOTIFICATION_TYPES
NotificationTypes == {"follow_request", "follow_accept", "like", "comment", "mention"}

Notification(r, a, t, m) ==
  [recipient |-> r, actor |-> a, notification_type |-> t, message |-> m, is_read |-> FALSE]

\* a request of handler o as it arrives: user u, URL id t
Arrived(o, u, t) ==
  [pc |-> "done", op |-> o, user |-> u, arg |-> t, snap |-> FALSE,
   resp |-> Response(0, "pending")]

\* the request returns response x (its locals die with it)
Ret(d, r, x) == [d |-> d, r |-> [r EXCEPT !.pc = "done", !.resp = x, !.snap = FALSE]]
\* the request goes on to statement p
Go(d, r, p) == [d |-> d, r |-> [r EXCEPT !.pc = p]]

\* follow_fetch without the test of request.user against to_follow
follow_fetch_any(d, u, t) ==
  IF t \notin Users
    THEN Ret(d, Arrived("follow", u, t), Response(404, "User not found"))
    ELSE Go(d, [Arrived("follow", u, t) EXCEPT !.snap = d.is_private[t]], "follow_check_edge")

\* --------------------------------------------------- FollowUserView.post
\* r.user is the follower, r.arg the account to follow
follow_fetch(d, u, t) ==
  IF t \notin Users
    THEN Ret(d, Arrived("follow", u, t), Response(404, "User not found"))
  ELSE IF u = t
    THEN Ret(d, Arrived("follow", u, t), Response(400, "Cannot follow yourself"))
  ELSE Go(d, [Arrived("follow", u, t) EXCEPT !.snap = d.is_private[t]], "follow_check_edge")

\* follow_check_edge that takes an edge in either direction for a following
follow_check_edge_either(d, r) ==
  IF <<r.user, r.arg>> \in d.follows \/ <<r.arg, r.user>> \in d.follows
    THEN Ret(d, r, Response(400, "Already following"))
    ELSE Go(d, r, "follow_check_request")

follow_check_edge(d, r) ==
  IF <<r.user, r.arg>> \in d.follows
    THEN Ret(d, r, Response(400, "Already following"))
    ELSE Go(d, r, "follow_check_request")

\* follow_check_request that lets a pending request to a public account go on
\* to the create
follow_check_request_convert(d, r) ==
  IF <<r.user, r.arg>> \in d.requests /\ r.snap
    THEN Ret(d, r, Response(400, "Follow request already sent"))
    ELSE Go(d, r, "follow_create")

follow_check_request(d, r) ==
  IF <<r.user, r.arg>> \in d.requests
    THEN Ret(d, r, Response(400, "Follow request already sent"))
    ELSE Go(d, r, "follow_create")

\* follow_create that files a request whatever the privacy of the target
follow_create_request_first(d, r) ==
  IF <<r.user, r.arg>> \in d.requests
    THEN Ret(d, r, ServerError("IntegrityError"))
    ELSE Go([d EXCEPT !.requests = @ \cup {<<r.user, r.arg>>}], r, "follow_notify")

\* the create of the row; unique_together makes a second row an IntegrityError
follow_create(d, r) ==
  IF r.snap
    THEN IF <<r.user, r.arg>> \in d.requests
           THEN Ret(d, r, ServerError("IntegrityError"))
           ELSE Go([d EXCEPT !.requests = @ \cup {<<r.user, r.arg>>}], r, "follow_notify")
    ELSE IF <<r.user, r.arg>> \in d.follows
           THEN Ret(d, r, ServerError("IntegrityError"))
           ELSE Go([d EXCEPT !.follows = @ \cup {<<r.user, r.arg>>}], r, "follow_notify")

\* follow_notify without the notification of the private branch
follow_notify_silent(d, r) ==
  IF r.snap
    THEN Ret(d, r, Response(200, "Follow request sent"))
    ELSE Ret([d EXCEPT !.notifications =
                Append(@, Notification(r.arg, r.user, "follow_accept", "started following you"))],
             r, Response(200, "followed"))

follow_notify(d, r) ==
  IF r.snap
    THEN Ret([d EXCEPT !.notifications =
                Append(@, Notification(r.arg, r.user, "follow_request", "wants to follow you"))],
             r, Response(200, "Follow request sent"))
    ELSE Ret([d EXCEPT !.notifications =
                Append(@, Notification(r.arg, r.user, "follow_accept", "started following you"))],
             r, Response(200, "followed"))

\* ------------------------------------------------- UnfollowUserView.post
unfollow_fetch(d, u, t) ==
  IF t \notin Users
    THEN Ret(d, Arrived("unfollow", u, t), Response(404, "User not found"))
    ELSE Go(d, Arrived("unfollow", u, t), "unfollow_check_edge")

unfollow_check_edge(d, r) ==
  IF <<r.user, r.arg>> \in d.follows
    THEN Go(d, r, "unfollow_delete_edge")
    ELSE Go(d, r, "unfollow_check_request")

unfollow_delete_edge(d, r) ==
  Ret([d EXCEPT !.follows = @ \ {<<r.user, r.arg>>}], r, Response(200, "Unfollowed"))

\* unfollow_check_request that answers not-found where the view answers 400
unfollow_check_request_404(d, r) ==
  IF <<r.user, r.arg>> \in d.requests
    THEN Go(d, r, "unfollow_delete_request")
    ELSE Ret(d, r, Response(404, "Not following or requested"))

unfollow_check_request(d, r) ==
  IF <<r.user, r.arg>> \in d.requests
    THEN Go(d, r, "unfollow_delete_request")
    ELSE Ret(d, r, Response(400, "Not following or requested"))

\* unfollow_delete_request that answers without deleting the row
unfollow_keep_request(d, r) ==
  Ret(d, r, Response(200, "Follow request cancelled"))

unfollow_delete_request(d, r) ==
  Ret([d EXCEPT !.requests = @ \ {<<r.user, r.arg>>}], r, Response(200, "Follow request cancelled"))

\* ------------------------------------------ AcceptFollowRequestView.post
\* r.user is the recipient of the request, r.arg the requester
accept_fetch(d, u, t) ==
  IF t \notin Users
    THEN Ret(d, Arrived("accept", u, t), Response(404, "User not found"))
    ELSE Go(d, Arrived("accept", u, t), "accept_check")

accept_check(d, r) ==
  IF <<r.arg, r.user>> \in d.requests
    THEN Go(d, r, "accept_create_edge")
    ELSE Ret(d, r, Response(404, "No follow request found"))

accept_create_edge(d, r) ==
  IF <<r.arg, r.user>> \in d.follows
    THEN Ret(d, r, ServerError("IntegrityError"))
    ELSE Go([d EXCEPT !.follows = @ \cup {<<r.arg, r.user>>}], r, "accept_delete_request")

\* accept_delete_request that leaves the row in place
accept_keep_request(d, r) ==
  Go(d, r, "accept_notify")

accept_delete_request(d, r) ==
  Go([d EXCEPT !.requests = @ \ {<<r.arg, r.user>>}], r, "accept_notify")

accept_notify(d, r) ==
  Go([d EXCEPT !.notifications =
        Append(@, Notification(r.arg, r.user, "follow_accept", "accepted your follow request"))],
     r, "accept_mark_read")

\* MarkRequestRead that marks every notification of the recipient
MarkRequestRead_recipient(log, recipient, actor) ==
  [i \in 1..Len(log) |->
     IF log[i].recipient = recipient THEN [log[i] EXCEPT !.is_read = TRUE] ELSE log[i]]

\* Notification.objects.filter(recipient, actor, notification_type='follow_request')
\*   .update(is_read=True)
MarkRequestRead(log, recipient, actor) ==
  [i \in 1..Len(log) |->
     IF /\ log[i].recipient = recipient
        /\ log[i].actor = actor
        /\ log[i].notification_type = "follow_request"
       THEN [log[i] EXCEPT !.is_read = TRUE]
       ELSE log[i]]

accept_mark_read(d, r) ==
  Ret([d EXCEPT !.notifications = MarkRequestRead(@, r.user, r.arg)],
      r, Response(200, "Follow request accepted"))

\* ------------------------------------------ RejectFollowRequestView.post
reject_fetch(d, u, t) ==
  IF t \notin Users
    THEN Ret(d, Arrived("reject", u, t), Response(404, "User not found"))
    ELSE Go(d, Arrived("reject", u, t), "reject_check")

reject_check(d, r) ==
  IF <<r.arg, r.user>> \in d.requests
    THEN Go(d, r, "reject_delete")
    ELSE Ret(d, r, Response(404, "No follow request found"))

reject_delete(d, r) ==
  Go([d EXCEPT !.requests = @ \ {<<r.arg, r.user>>}], r, "reject_mark_read")

\* reject_mark_read that leaves the notifications as they are
reject_mark_read_skip(d, r) ==
  Ret(d, r, Response(200, "Follow request rejected"))

reject_mark_read(d, r) ==
  Ret([d EXCEPT !.notifications = MarkRequestRead(@, r.user, r.arg)],
      r, Response(200, "Follow request rejected"))

\* CheckFollowStatus without the case of the caller's own account
CheckFollowStatus_noself(d, u, t) ==
  IF t \notin Users THEN Response(404, "User not found")
  ELSE IF <<u, t>> \in d.follows THEN Response(200, "following")
  ELSE IF <<u, t>> \in d.requests THEN Response(200, "requested")
  ELSE Response(200, "not_following")

\* --------------------------------------- MarkNotificationAsReadView.post
\* r.arg is the notification_id of the URL; the id of a row is its place in
\* the log
mark_read_fetch_any(d, u, n) ==
  IF n \in 1..Len(d.notifications)
    THEN Go(d, Arrived("mark-read", u, n), "mark_read_save")
    ELSE Ret(d, Arrived("mark-read", u, n), Response(404, "Notification not found"))

\* Notification.objects.get(id=notification_id, recipient=request.user)
mark_read_fetch(d, u, n) ==
  IF n \in 1..Len(d.notifications) /\ d.notifications[n].recipient = u
    THEN Go(d, Arrived("mark-read", u, n), "mark_read_save")
    ELSE Ret(d, Arrived("mark-read", u, n), Response(404, "Notification not found"))

\* notification.is_read = True; notification.save().  No statement writes
\* another field of a row or deletes a row, so the save changes is_read alone.
mark_read_save(d, r) ==
  Ret([d EXCEPT !.notifications[r.arg].is_read = TRUE],
      r, Response(200, "Notification marked as read"))


\* (variant: the view clears the caller's notifications instead of marking them)
mark_all_read_purge(d, u) ==
  Ret([d EXCEPT !.notifications = SelectSeq(@, LAMBDA n : n.recipient # u)],
      Arrived("mark-all-read", u, u), Response(200, "All notifications marked as read"))

\* ----------------------------------- MarkAllNotificationsAsReadView.post
\* (no id in the URL: the request carries the user's own id as arg)
mark_all_read(d, u) ==
  Ret([d EXCEPT !.notifications =
         [i \in 1..Len(@) |-> IF @[i].recipient = u /\ ~@[i].is_read
                                THEN [@[i] EXCEPT !.is_read = TRUE]
                                ELSE @[i]]],
      Arrived("mark-all-read", u, u), Response(200, "All notifications marked as read"))

\* ------------------------------------------------------------------ reads
\* CheckFollowStatusView.get
CheckFollowStatus(d, u, t) ==
  IF t \notin Users THEN Response(404, "User not found")
  ELSE IF t = u THEN Response(200, "self")
  ELSE IF <<u, t>> \in d.follows THEN Response(200, "following")
  ELSE IF <<u, t>> \in d.requests THEN Response(200, "requested")
  ELSE Response(200, "not_following")

\* PrivacyGate that lets a pending request through as well
PrivacyGate_pending(d, v, t) ==
  IF ~d.is_private[t] THEN "pass"
  ELSE IF v = Anonymous THEN "TypeError"
  ELSE IF <<v, t>> \in d.follows \/ <<v, t>> \in d.requests THEN "pass"
  ELSE "deny"

\* `user.is_private and not Follow.objects.filter(follower=request.user,
\* followed=user).exists()`, the test of the four gated reads.  The filter is
\* built only for a private target; built with the AnonymousUser object as the
\* value of the foreign key it raises TypeError (that object is neither a model
\* instance nor a number), which no view catches.
PrivacyGate(d, v, t) ==
  IF ~d.is_private[t] THEN "pass"
  ELSE IF v = Anonymous THEN "TypeError"
  ELSE IF <<v, t>> \in d.follows THEN "pass"
  ELSE "deny"

Followers(d, t) == {f \in Users : <<f, t>> \in d.follows}
Following(d, t) == {f \in Users : <<t, f>> \in d.follows}
PostsOf(d, t) == {i \in 1..Len(d.posts) : d.posts[i].user = t}

\* UserDetailView.get
UserDetail(d, v, t) ==
  IF t \notin Users THEN Response(404, "Not found")
  ELSE IF t = v THEN Response(200, "profile")
  ELSE IF PrivacyGate(d, v, t) = "TypeError" THEN ServerError("TypeError")
  ELSE IF PrivacyGate(d, v, t) = "deny" THEN Response(403, "This account is private")
  ELSE Response(200, "profile")

\* GatedList that refuses where the views answer with an empty list
GatedList_forbid(d, v, t, full) ==
  IF t \notin Users THEN ListResponse({})
  ELSE IF t = v THEN ListResponse(full)
  ELSE IF PrivacyGate(d, v, t) = "TypeError" THEN ServerError("TypeError")
  ELSE IF PrivacyGate(d, v, t) = "deny" THEN Response(403, "This account is private")
  ELSE ListResponse(full)

\* get_queryset of a gated list view whose unfiltered result is `full`
GatedList(d, v, t, full) ==
  IF t \notin Users THEN ListResponse({})
  ELSE IF t = v THEN ListResponse(full)
  ELSE IF PrivacyGate(d, v, t) = "TypeError" THEN ServerError("TypeError")
  ELSE IF PrivacyGate(d, v, t) = "deny" THEN ListResponse({})
  ELSE ListResponse(full)

FollowersList(d, v, t) == GatedList(d, v, t, Followers(d, t))
FollowingList(d, v, t) == GatedList(d, v, t, Following(d, t))
UserPostsList(d, v, t) == GatedList(d, v, t, PostsOf(d, t))


\* PostListCreateView.get: queryset = Post.objects.select_related('user').all()
PostsList(d, v) == ListResponse(1..Len(d.posts))

\* ------------------------------------------------------ handlers as a whole
\* the first statement of handler o for user u and URL id t
Fetch(d, o, u, t) ==
  CASE o = "follow" -> follow_fetch(d, u, t)
    [] o = "unfollow" -> unfollow_fetch(d, u, t)
    [] o = "accept" -> accept_fetch(d, u, t)
    [] o = "reject" -> reject_fetch(d, u, t)
    [] o = "mark-read" -> mark_read_fetch(d, u, t)
    [] o = "mark-all-read" -> mark_all_read(d, u)

\* the statement request r is at
Exec(d, r) ==
  CASE r.pc = "follow_check_edge" -> follow_check_edge(d, r)
    [] r.pc = "follow_check_request" -> follow_check_request(d, r)
    [] r.pc = "follow_create" -> follow_create(d, r)
    [] r.pc = "follow_notify" -> follow_notify(d, r)
    [] r.pc = "unfollow_check_edge" -> unfollow_check_edge(d, r)
    [] r.pc = "unfollow_delete_edge" -> unfollow_delete_edge(d, r)
    [] r.pc = "unfollow_check_request" -> unfollow_check_request(d, r)
    [] r.pc = "unfollow_delete_request" -> unfollow_delete_request(d, r)
    [] r.pc = "accept_check" -> accept_check(d, r)
    [] r.pc = "accept_create_edge" -> accept_create_edge(d, r)
    [] r.pc = "accept_delete_request" -> accept_delete_request(d, r)
    [] r.pc = "accept_notify" -> accept_notify(d, r)
    [] r.pc = "accept_mark_read" -> accept_mark_read(d, r)
    [] r.pc = "reject_check" -> reject_check(d, r)
    [] r.pc = "reject_delete" -> reject_delete(d, r)
    [] r.pc = "reject_mark_read" -> reject_mark_read(d, r)
    [] r.pc = "mark_read_save" -> mark_read_save(d, r)

\* the states a request passes through when no other request runs in between,
\* from x on, in order; the last one holds the response
RECURSIVE Path(_)
Path(x) == IF x.r.pc = "done" THEN <<x>> ELSE <<x>> \o Path(Exec(x.d, x.r))

\* handler o called by u with URL id t on database d, run alone
Trace(d, o, u, t) == Path(Fetch(d, o, u, t))
Call(d, o, u, t) == Trace(d, o, u, t)[Len(Trace(d, o, u, t))]

\* ---------------------------------------------------------------- actions
Apply(w, x) ==
  /\ is_private' = x.d.is_private
  /\ follows' = x.d.follows
  /\ requests' = x.d.requests
  /\ notifications' = x.d.notifications
  /\ posts' = x.d.posts
  /\ pc' = [pc EXCEPT ![w] = x.r.pc]
  /\ op' = [op EXCEPT ![w] = x.r.op]
  /\ user' = [user EXCEPT ![w] = x.r.user]
  /\ arg' = [arg EXCEPT ![w] = x.r.arg]
  /\ snap' = [snap EXCEPT ![w] = x.r.snap]
  /\ resp' = [resp EXCEPT ![w] = x.r.resp]
  /\ UNCHANGED <<likeVars, authVars>>

\* The log is kept within MaxNotifs rows: a request that is to append a row
\* takes its first write only while there is room for the row, counting the
\* requests that have written and not yet appended.
Appenders ==
  {w \in Workers : pc[w] \in {"follow_notify", "accept_delete_request", "accept_notify",
                               "like_save", "like_notify"}}
RoomToAppend == Len(notifications) + Cardinality(Appenders) < MaxNotifs

\* a request arrives at worker w and runs its first statement
FollowBegin(w, u, t) == pc[w] = "done" /\ Apply(w, follow_fetch(DB, u, t))
UnfollowBegin(w, u, t) == pc[w] = "done" /\ Apply(w, unfollow_fetch(DB, u, t))
AcceptBegin(w, u, t) == pc[w] = "done" /\ Apply(w, accept_fetch(DB, u, t))
RejectBegin(w, u, t) == pc[w] = "done" /\ Apply(w, reject_fetch(DB, u, t))

\* worker w runs the statement its request is at
FollowCheckEdge(w) == pc[w] = "follow_check_edge" /\ Apply(w, follow_check_edge(DB, Req(w)))
FollowCheckRequest(w) == pc[w] = "follow_check_request" /\ Apply(w, follow_check_request(DB, Req(w)))
FollowCreate(w) ==
  pc[w] = "follow_create" /\ RoomToAppend /\ Apply(w, follow_create(DB, Req(w)))
FollowNotify(w) == pc[w] = "follow_notify" /\ Apply(w, follow_notify(DB, Req(w)))
UnfollowCheckEdge(w) == pc[w] = "unfollow_check_edge" /\ Apply(w, unfollow_check_edge(DB, Req(w)))
UnfollowDeleteEdge(w) == pc[w] = "unfollow_delete_edge" /\ Apply(w, unfollow_delete_edge(DB, Req(w)))
UnfollowCheckRequest(w) == pc[w] = "unfollow_check_request" /\ Apply(w, unfollow_check_request(DB, Req(w)))
UnfollowDeleteRequest(w) == pc[w] = "unfollow_delete_request" /\ Apply(w, unfollow_delete_request(DB, Req(w)))
AcceptCheck(w) == pc[w] = "accept_check" /\ Apply(w, accept_check(DB, Req(w)))
AcceptCreateEdge(w) ==
  pc[w] = "accept_create_edge" /\ RoomToAppend /\ Apply(w, accept_create_edge(DB, Req(w)))
AcceptDeleteRequest(w) == pc[w] = "accept_delete_request" /\ Apply(w, accept_delete_request(DB, Req(w)))
AcceptNotify(w) == pc[w] = "accept_notify" /\ Apply(w, accept_notify(DB, Req(w)))
AcceptMarkRead(w) == pc[w] = "accept_mark_read" /\ Apply(w, accept_mark_read(DB, Req(w)))
RejectCheck(w) == pc[w] = "reject_check" /\ Apply(w, reject_check(DB, Req(w)))
RejectDelete(w) == pc[w] = "reject_delete" /\ Apply(w, reject_delete(DB, Req(w)))
RejectMarkRead(w) == pc[w] = "reject_mark_read" /\ Apply(w, reject_mark_read(DB, Req(w)))

\* a read handler, taken at one instant by a worker between requests
Read(o, v, t, x) == Ret(DB, Arrived(o, v, t), x)

GetFollowStatus(w, u, t) ==
  pc[w] = "done" /\ Apply(w, Read("follow-status", u, t, CheckFollowStatus(DB, u, t)))
GetProfile(w, v, t) ==
  pc[w] = "done" /\ Apply(w, Read("user-detail", v, t, UserDetail(DB, v, t)))
GetFollowers(w, v, t) ==
  pc[w] = "done" /\ Apply(w, Read("user-followers", v, t, FollowersList(DB, v, t)))
GetFollowing(w, v, t) ==
  pc[w] = "done" /\ Apply(w, Read("user-following", v, t, FollowingList(DB, v, t)))
GetUserPosts(w, v, t) ==
  pc[w] = "done" /\ Apply(w, Read("user-posts", v, t, UserPostsList(DB, v, t)))


\* (no id in the URL: the request carries the viewer's own id as arg)
GetPosts(w, v) ==
  pc[w] = "done" /\ Apply(w, Read("posts", v, v, PostsList(DB, v)))

\* the admin form of User edits is_private (no API view writes it)
SetPrivacy(u, b) ==
  /\ is_private[u] # b
  /\ is_private' = [is_private EXCEPT ![u] = b]
  /\ UNCHANGED <<follows, requests, notifications, posts, pc, op, user, arg, snap, resp>>
  /\ UNCHANGED <<likeVars, authVars>>

\* the notification views
MarkNotificationAsReadBegin(w, u, n) == pc[w] = "done" /\ Apply(w, mark_read_fetch(DB, u, n))
MarkNotificationAsReadSave(w) == pc[w] = "mark_read_save" /\ Apply(w, mark_read_save(DB, Req(w)))
MarkAllNotificationsAsRead(w, u) == pc[w] = "done" /\ Apply(w, mark_all_read(DB, u))

\* PostListCreateView.perform_create
PostCreate(u) ==
  /\ Len(posts) < MaxPosts
  /\ posts' = Append(posts, [user |-> u])
  /\ UNCHANGED <<is_private, follows, requests, notifications, pc, op, user, arg, snap, resp>>
  /\ UNCHANGED <<likeVars, authVars>>


\* ------------------------------------------------------------ like views
\* the locals of worker w after a statement of a like view: it is at
\* statement p of handler o, with response x
LikeLocals(w, p, o, u, t, x) ==
  /\ pc' = [pc EXCEPT ![w] = p]
  /\ op' = [op EXCEPT ![w] = o]
  /\ user' = [user EXCEPT ![w] = u]
  /\ arg' = [arg EXCEPT ![w] = t]
  /\ resp' = [resp EXCEPT ![w] = x]
  /\ UNCHANGED <<is_private, follows, requests, posts, snap, authVars>>

\* the like view returns x (the Post instance dies with the request)
LikeReturn(w, x) ==
  /\ LikeLocals(w, "done", op[w], user[w], arg[w], x)
  /\ count' = [count EXCEPT ![w] = 0]

\* post = Post.objects.get(id=post_id), of either method
LikeFetch(w, o, u, p, next) ==
  /\ pc[w] = "done"
  /\ IF p \in 1..Len(posts)
       THEN /\ LikeLocals(w, next, o, u, p, Response(0, "pending"))
            /\ count' = [count EXCEPT ![w] = likes_count[p]]
       ELSE /\ LikeLocals(w, "done", o, u, p, Response(404, "Post not found"))
            /\ count' = [count EXCEPT ![w] = 0]
  /\ UNCHANGED <<notifications, likes, likes_count>>

\* LikePostView.post
LikeBegin(w, u, p) == LikeFetch(w, "like", u, p, "like_get_or_create")

\* Like.objects.get_or_create(user=request.user, post=post)
LikeGetOrCreate(w) ==
  /\ pc[w] = "like_get_or_create"
  /\ IF <<user[w], arg[w]>> \in likes
       THEN /\ LikeReturn(w, Response(400, "Already liked"))
            /\ UNCHANGED likes
       ELSE /\ posts[arg[w]].user # user[w] => RoomToAppend
            /\ count[w] < MaxCount
            /\ likes' = likes \cup {<<user[w], arg[w]>>}
            /\ LikeLocals(w, "like_save", op[w], user[w], arg[w], resp[w])
            /\ UNCHANGED count
  /\ UNCHANGED <<notifications, likes_count>>

\* the count the like view writes from the instance it fetched
Incremented(c) == c + 1

\* post.likes_count += 1; post.save(update_fields=['likes_count'])
LikeSave(w) ==
  /\ pc[w] = "like_save"
  /\ likes_count' = [likes_count EXCEPT ![arg[w]] = Incremented(count[w])]
  /\ IF posts[arg[w]].user # user[w]
       THEN /\ LikeLocals(w, "like_notify", op[w], user[w], arg[w], resp[w])
            /\ count' = [count EXCEPT ![w] = Incremented(count[w])]
       ELSE LikeReturn(w, Response(200, "liked"))
  /\ UNCHANGED <<notifications, likes>>

\* Notification.objects.create(recipient=post.user, ..., notification_type='like')
LikeNotify(w) ==
  /\ pc[w] = "like_notify"
  /\ notifications' = Append(notifications,
        Notification(posts[arg[w]].user, user[w], "like", "liked your post"))
  /\ LikeReturn(w, Response(200, "liked"))
  /\ UNCHANGED <<likes, likes_count>>

\* LikePostView.delete
UnlikeBegin(w, u, p) == LikeFetch(w, "unlike", u, p, "unlike_get")

\* like = Like.objects.get(user=request.user, post=post)
UnlikeGet(w) ==
  /\ pc[w] = "unlike_get"
  /\ IF <<user[w], arg[w]>> \in likes
       THEN /\ LikeLocals(w, "unlike_delete", op[w], user[w], arg[w], resp[w])
            /\ UNCHANGED count
       ELSE LikeReturn(w, Response(400, "Not liked"))
  /\ UNCHANGED <<notifications, likes, likes_count>>

\* like.delete()
UnlikeDelete(w) ==
  /\ pc[w] = "unlike_delete"
  /\ likes' = likes \ {<<user[w], arg[w]>>}
  /\ LikeLocals(w, "unlike_save", op[w], user[w], arg[w], resp[w])
  /\ UNCHANGED <<notifications, likes_count, count>>

\* the count the unlike view writes from the instance it fetched
Decremented(c) == IF c - 1 > 0 THEN c - 1 ELSE 0

\* post.likes_count = max(0, post.likes_count - 1); post.save(update_fields=['likes_count'])
UnlikeSave(w) ==
  /\ pc[w] = "unlike_save"
  /\ likes_count' = [likes_count EXCEPT ![arg[w]] = Decremented(count[w])]
  /\ LikeReturn(w, Response(200, "unliked"))
  /\ UNCHANGED <<notifications, likes>>

\* a like request arrives at worker w, or the one under way takes a statement
LikeStep(w) ==
  \/ \E u \in Users, p \in PostUrlIds : LikeBegin(w, u, p)
  \/ \E u \in Users, p \in PostUrlIds : UnlikeBegin(w, u, p)
  \/ LikeGetOrCreate(w)
  \/ LikeSave(w)
  \/ LikeNotify(w)
  \/ UnlikeGet(w)
  \/ UnlikeDelete(w)
  \/ UnlikeSave(w)


\* --------------------------------------------------------- account views
\* the account tables, and the request of worker w to an account view, as values
ADB == [is_verified |-> is_verified, two_factor_enabled |-> two_factor_enabled,
        otps |-> otps, devices |-> devices, tokens |-> tokens,
        blacklist |-> blacklist, now |-> now]
AReq(w) == [pc |-> pc[w], op |-> op[w], user |-> user[w], arg |-> arg[w],
            resp |-> resp[w], token |-> token[w], at |-> at[w]]

\* generate_otp_code (a request that gives no code carries 0)
Codes == 1..NumCodes
\* the code mailed at registration
RegisterCode == CHOOSE c \in Codes : TRUE
\* expires_at = timezone.now() + timedelta(minutes=10)
OtpLifetime == 10

\* a row of OTP created at time t
OTP(u, c, p, t) ==
  [user |-> u, code |-> c, purpose |-> p, expires_at |-> t + OtpLifetime, is_used |-> FALSE]

\* OTP.objects.filter(user=user, purpose=p, code=code, is_used=False, expires_at__gte=now)
LiveOtps(d, u, p, c, t) ==
  {i \in 1..Len(d.otps) : /\ d.otps[i].user = u /\ d.otps[i].purpose = p
                          /\ d.otps[i].code = c /\ ~d.otps[i].is_used
                          /\ d.otps[i].expires_at >= t}

\* OTP.objects.filter(user=user, purpose=p, is_used=False)
UnusedOtps(d, u, p) ==
  {i \in 1..Len(d.otps) : d.otps[i].user = u /\ d.otps[i].purpose = p /\ ~d.otps[i].is_used}

\* queryset.update(is_used=True) on the rows ids
MarkUsed(d, ids) ==
  [d EXCEPT !.otps = [i \in 1..Len(@) |-> IF i \in ids THEN [@[i] EXCEPT !.is_used = TRUE] ELSE @[i]]]

\* a request of account view o as it arrives: it names user u, carries code
\* or id t, and token k in its Authorization header (0: none)
AArrived(o, u, t, k) ==
  [pc |-> "done", op |-> o, user |-> u, arg |-> t, resp |-> Response(0, "pending"),
   token |-> k, at |-> 0]

\* the request returns response x: the worker keeps the name of the view and
\* the response, and the request (its user, its data, its token) is gone
ARet(d, r, x) ==
  [d |-> d, r |-> [r EXCEPT !.pc = "done", !.resp = x, !.user = Anonymous, !.arg = 0,
                            !.token = 0, !.at = 0]]
AGo(d, r, p) == [d |-> d, r |-> [r EXCEPT !.pc = p]]

\* the response that carries the tokens issued
TokenResponse(k, m) == [status |-> 200, detail |-> m, list |-> {k}]

\* RefreshToken.for_user(user)
IssueToken(d, r) ==
  [d |-> [d EXCEPT !.tokens = Append(@, [user |-> r.user])],
   r |-> [r EXCEPT !.token = Len(d.tokens) + 1]]

\* UserDevice.objects.create(user=user, ...)
CreateDevice(d, r) == [d EXCEPT !.devices = Append(@, [user |-> r.user, is_active |-> TRUE])]

\* ---------------------------------------------------- VerifyOTPView.post
\* VerifyOTPSerializer.validate
verify_otp_validate(d, u, c) ==
  LET r == AArrived("verify-otp", u, c, 0)
  IN IF u \notin Users THEN ARet(d, r, Response(400, "User not found"))
     ELSE IF LiveOtps(d, u, "register", c, d.now) = {}
       THEN ARet(d, r, Response(400, "Invalid or expired code"))
     ELSE AGo(d, r, "verify_otp_save")

verify_otp_save(d, r) ==
  AGo([d EXCEPT !.is_verified[r.user] = TRUE], r, "verify_otp_update")

verify_otp_update(d, r) ==
  AGo(MarkUsed(d, UnusedOtps(d, r.user, "register")), r, "verify_otp_token")

verify_otp_token(d, r) ==
  LET x == IssueToken(d, r)
  IN ARet(x.d, x.r, TokenResponse(x.r.token, "Account verified and logged in successfully."))

\* -------------------------------------------------------- LoginView.post
\* pw: what the request gives as password ("missing", "wrong" or "right")
login_authenticate(d, u, pw) ==
  LET r == AArrived("login", u, 0, 0)
  IN IF pw = "missing" THEN ARet(d, r, Response(400, "Username and password required"))
     ELSE IF u \notin Users \/ pw # "right" THEN ARet(d, r, Response(401, "Invalid credentials"))
     ELSE IF ~d.is_verified[u] THEN ARet(d, r, Response(401, "Account not verified"))
     ELSE IF d.two_factor_enabled[u] THEN AGo(d, r, "login_otp")
     ELSE AGo(d, r, "login_token")

\* OTP.objects.create(purpose='login') with code c, and send_mail going through or not
login_otp(d, r, c, sent) ==
  ARet([d EXCEPT !.otps = Append(@, OTP(r.user, c, "login", d.now))], r,
       IF sent THEN Response(200, "2FA enabled. Check email for OTP.")
       ELSE Response(500, "Failed to send 2FA email"))

login_token(d, r) ==
  LET x == IssueToken(d, r) IN AGo(x.d, x.r, "login_device")

login_device(d, r) == ARet(CreateDevice(d, r), r, TokenResponse(r.token, "tokens"))

\* ---------------------------------------------------- Verify2FAView.post
verify2fa_check(d, u, c) ==
  LET r == [AArrived("verify-2fa", u, c, 0) EXCEPT !.at = d.now]
  IN IF c = 0 THEN ARet(d, r, Response(400, "Username and code required"))
     ELSE IF u \notin Users THEN ARet(d, r, Response(404, "User not found"))
     ELSE IF LiveOtps(d, u, "login", c, d.now) = {}
       THEN ARet(d, r, Response(400, "Invalid or expired code"))
     ELSE AGo(d, r, "verify2fa_update")

\* otp_qs.update(is_used=True): the filter runs again, with the now read before
verify2fa_update(d, r) ==
  AGo(MarkUsed(d, LiveOtps(d, r.user, "login", r.arg, r.at)), r, "verify2fa_token")

verify2fa_token(d, r) ==
  LET x == IssueToken(d, r) IN AGo(x.d, x.r, "verify2fa_device")

verify2fa_device(d, r) == ARet(CreateDevice(d, r), r, TokenResponse(r.token, "tokens"))

\* ------------------------------------------- ResetPasswordRequestView.post
reset_request(d, u, c, sent) ==
  LET r == AArrived("reset-request", u, 0, 0)
  IN IF u \notin Users THEN ARet(d, r, Response(400, "User not found"))
     ELSE ARet([d EXCEPT !.otps = Append(@, OTP(u, c, "reset", d.now))], r,
               IF sent THEN Response(200, "Reset OTP sent.")
               ELSE Response(500, "Failed to send reset email"))

\* ------------------------------------------- ResetPasswordConfirmView.post
\* ResetPasswordConfirmSerializer.validate; strong: validate_password accepts
reset_validate(d, u, c, strong) ==
  LET r == AArrived("reset-confirm", u, c, 0)
  IN IF u \notin Users THEN ARet(d, r, Response(400, "User not found"))
     ELSE IF LiveOtps(d, u, "reset", c, d.now) = {}
       THEN ARet(d, r, Response(400, "Invalid or expired code"))
     ELSE IF ~strong THEN ARet(d, r, Response(400, "Invalid password"))
     ELSE AGo(d, r, "reset_save")

\* user.set_password(new_password); user.save(update_fields=['password'])
\* (the password is not part of the state: a login says whether it gives the right one)
reset_save(d, r) == AGo(d, r, "reset_update")

reset_update(d, r) ==
  ARet(MarkUsed(d, UnusedOtps(d, r.user, "reset")), r, Response(200, "Password reset successful."))

\* ------------------------------------------------------- authentication
\* request.user of a request that carries token k
AuthUser(d, k) ==
  IF k \in 1..Len(d.tokens) /\ k \notin d.blacklist THEN d.tokens[k].user ELSE Anonymous

Unauthorized == Response(401, "Unauthorized")

\* ----------------------------------------------------- ProfileView.patch
set_two_factor(d, k, b) ==
  LET u == AuthUser(d, k)
      r == AArrived("profile", u, 0, k)
  IN IF u = Anonymous THEN ARet(d, r, Unauthorized)
     ELSE ARet([d EXCEPT !.two_factor_enabled[u] = b], r, Response(200, "profile"))

\* -------------------------------------------------- DeviceListView.get
device_list(d, k) ==
  LET u == AuthUser(d, k)
      r == AArrived("device-list", u, 0, k)
  IN IF u = Anonymous THEN ARet(d, r, Unauthorized)
     ELSE ARet(d, r, ListResponse({i \in 1..Len(d.devices) :
                                     d.devices[i].user = u /\ d.devices[i].is_active}))

\* (variant: the device is fetched by its id alone)
logout_device_get_any(d, k, dev) ==
  LET u == AuthUser(d, k)
      r == AArrived("logout-device", u, dev, k)
  IN IF u = Anonymous THEN ARet(d, r, Unauthorized)
     ELSE IF dev \notin 1..Len(d.devices) THEN ARet(d, r, Response(404, "Device not found"))
     ELSE AGo(d, r, "logout_device_save")

\* ------------------------------------------------ LogoutDeviceView.delete
\* (the body of the request, where a client puts its refresh_token, is not read)
logout_device_get(d, k, dev) ==
  LET u == AuthUser(d, k)
      r == AArrived("logout-device", u, dev, k)
  IN IF u = Anonymous THEN ARet(d, r, Unauthorized)
     ELSE IF dev \notin 1..Len(d.devices) \/ d.devices[dev].user # u
       THEN ARet(d, r, Response(404, "Device not found"))
     ELSE AGo(d, r, "logout_device_save")

\* device.is_active = False; device.save()
logout_device_save(d, r) ==
  ARet([d EXCEPT !.devices[r.arg] = [user |-> r.user, is_active |-> FALSE]], r,
       Response(200, "Device logged out successfully"))

\* ------------------------------------------------ LogoutAllDevicesView.post
\* cur: the current_session_token of the body (the id of the device; 0: none)
logout_all(d, k, cur) ==
  LET u == AuthUser(d, k)
      r == AArrived("logout-all", u, cur, k)
  IN IF u = Anonymous THEN ARet(d, r, Unauthorized)
     ELSE ARet([d EXCEPT !.devices =
                  [i \in 1..Len(@) |-> IF @[i].user = u THEN [@[i] EXCEPT !.is_active = FALSE]
                                       ELSE @[i]]],
               r, Response(200, "All devices logged out successfully"))

\* ------------------------------------------------------ account actions
AuthApply(w, x) ==
  /\ is_verified' = x.d.is_verified
  /\ two_factor_enabled' = x.d.two_factor_enabled
  /\ otps' = x.d.otps
  /\ devices' = x.d.devices
  /\ tokens' = x.d.tokens
  /\ blacklist' = x.d.blacklist
  /\ now' = x.d.now
  /\ pc' = [pc EXCEPT ![w] = x.r.pc]
  /\ op' = [op EXCEPT ![w] = x.r.op]
  /\ user' = [user EXCEPT ![w] = x.r.user]
  /\ arg' = [arg EXCEPT ![w] = x.r.arg]
  /\ resp' = [resp EXCEPT ![w] = x.r.resp]
  /\ token' = [token EXCEPT ![w] = x.r.token]
  /\ at' = [at EXCEPT ![w] = x.r.at]
  /\ UNCHANGED <<is_private, follows, requests, notifications, posts, snap, likeVars>>

\* The tables are kept within their bounds: a request that is to create a
\* row starts only while there is room for the row, counting the requests
\* under way that are to create one.
Pending(pcs) == Cardinality({w \in Workers : pc[w] \in pcs})
RoomForOtp == Len(otps) + Pending({"login_otp"}) < NumUsers + MaxOtps
RoomForToken ==
  Len(tokens) + Pending({"login_token", "verify_otp_save", "verify_otp_update", "verify_otp_token",
                         "verify2fa_update", "verify2fa_token"}) < MaxTokens
RoomForDevice ==
  Len(devices) + Pending({"login_token", "login_device", "verify2fa_update",
                          "verify2fa_token", "verify2fa_device"}) < MaxDevices

\* the ids a URL or a body can carry
TokenIds == 1..(MaxTokens + 1)
DeviceIds == 1..(MaxDevices + 1)

VerifyOtpBegin(w, u, c) ==
  /\ pc[w] = "done"
  /\ LET x == verify_otp_validate(ADB, u, c)
     IN (x.r.pc # "done" => RoomForToken) /\ AuthApply(w, x)
VerifyOtpSave(w) == pc[w] = "verify_otp_save" /\ AuthApply(w, verify_otp_save(ADB, AReq(w)))
VerifyOtpUpdate(w) == pc[w] = "verify_otp_update" /\ AuthApply(w, verify_otp_update(ADB, AReq(w)))
VerifyOtpToken(w) == pc[w] = "verify_otp_token" /\ AuthApply(w, verify_otp_token(ADB, AReq(w)))

LoginBegin(w, u, pw) ==
  /\ pc[w] = "done"
  /\ LET x == login_authenticate(ADB, u, pw)
     IN /\ x.r.pc = "login_otp" => RoomForOtp
        /\ x.r.pc = "login_token" => RoomForToken /\ RoomForDevice
        /\ AuthApply(w, x)
LoginOtp(w, c, sent) == pc[w] = "login_otp" /\ AuthApply(w, login_otp(ADB, AReq(w), c, sent))
LoginToken(w) == pc[w] = "login_token" /\ AuthApply(w, login_token(ADB, AReq(w)))
LoginDevice(w) == pc[w] = "login_device" /\ AuthApply(w, login_device(ADB, AReq(w)))

Verify2faBegin(w, u, c) ==
  /\ pc[w] = "done"
  /\ LET x == verify2fa_check(ADB, u, c)
     IN (x.r.pc # "done" => RoomForToken /\ RoomForDevice) /\ AuthApply(w, x)
Verify2faUpdate(w) == pc[w] = "verify2fa_update" /\ AuthApply(w, verify2fa_update(ADB, AReq(w)))
Verify2faToken(w) == pc[w] = "verify2fa_token" /\ AuthApply(w, verify2fa_token(ADB, AReq(w)))
Verify2faDevice(w) == pc[w] = "verify2fa_device" /\ AuthApply(w, verify2fa_device(ADB, AReq(w)))

ResetRequest(w, u, c, sent) ==
  /\ pc[w] = "done"
  /\ u \in Users => RoomForOtp
  /\ AuthApply(w, reset_request(ADB, u, c, sent))
ResetConfirmBegin(w, u, c, strong) ==
  pc[w] = "done" /\ AuthApply(w, reset_validate(ADB, u, c, strong))
ResetSave(w) == pc[w] = "reset_save" /\ AuthApply(w, reset_save(ADB, AReq(w)))
ResetUpdate(w) == pc[w] = "reset_update" /\ AuthApply(w, reset_update(ADB, AReq(w)))

SetTwoFactor(w, k, b) == pc[w] = "done" /\ AuthApply(w, set_two_factor(ADB, k, b))
DeviceList(w, k) == pc[w] = "done" /\ AuthApply(w, device_list(ADB, k))
LogoutDeviceBegin(w, k, dev) == pc[w] = "done" /\ AuthApply(w, logout_device_get(ADB, k, dev))
LogoutDeviceSave(w) == pc[w] = "logout_device_save" /\ AuthApply(w, logout_device_save(ADB, AReq(w)))
LogoutAll(w, k, cur) == pc[w] = "done" /\ AuthApply(w, logout_all(ADB, k, cur))

\* time passes, ten minutes at a time
Tick ==
  /\ now < MaxClock * OtpLifetime
  /\ now' = now + OtpLifetime
  /\ UNCHANGED <<is_private, follows, requests, notifications, posts, pc, op, user, arg, snap, resp,
                 likeVars, is_verified, two_factor_enabled, otps, devices, tokens, blacklist,
                 token, at>>

\* --------------------------------------------------------- specifications
Init ==
  /\ is_private = [u \in Users |-> TRUE]
  /\ follows = {}
  /\ requests = {}
  /\ notifications = <<>>
  /\ posts = <<>>
  /\ pc = [w \in Workers |-> "done"]
  /\ op = [w \in Workers |-> "none"]
  /\ user = [w \in Workers |-> Anonymous]
  /\ arg = [w \in Workers |-> 1]
  /\ snap = [w \in Workers |-> FALSE]
  /\ resp = [w \in Workers |-> Response(0, "none")]
  /\ likes = {}
  /\ likes_count = [p \in PostIds |-> 0]
  /\ count = [w \in Workers |-> 0]
  /\ is_verified = [u \in Users |-> FALSE]
  /\ two_factor_enabled = [u \in Users |-> FALSE]
  /\ otps = [u \in Users |-> OTP(u, RegisterCode, "register", 0)]
  /\ devices = <<>>
  /\ tokens = <<>>
  /\ blacklist = {}
  /\ now = 0
  /\ token = [w \in Workers |-> 0]
  /\ at = [w \in Workers |-> 0]

\* a request arrives at worker w: authenticated user u, id t in the URL
Begin(w, u, t) ==
  \/ FollowBegin(w, u, t)
  \/ UnfollowBegin(w, u, t)
  \/ AcceptBegin(w, u, t)
  \/ RejectBegin(w, u, t)

\* the statements after the first of each mutating handler
Step(w) ==
  \/ FollowCheckEdge(w) \/ FollowCheckRequest(w) \/ FollowCreate(w) \/ FollowNotify(w)
  \/ UnfollowCheckEdge(w) \/ UnfollowDeleteEdge(w)
  \/ UnfollowCheckRequest(w) \/ UnfollowDeleteRequest(w)
  \/ AcceptCheck(w) \/ AcceptCreateEdge(w) \/ AcceptDeleteRequest(w)
  \/ AcceptNotify(w) \/ AcceptMarkRead(w)
  \/ RejectCheck(w) \/ RejectDelete(w) \/ RejectMarkRead(w)

\* Spec: the follow workflow as deployed.  Every worker serves requests, and
\* the statements of the requests in flight interleave.
Next ==
  \/ \E w \in Workers : \E u \in Users, t \in Users : Begin(w, u, t)
  \/ \E w \in Workers : Step(w)
  \/ \E u \in Users, b \in BOOLEAN : SetPrivacy(u, b)

Spec == Init /\ [][Next]_vars

\* SeqSpec: one request at a time, served by one worker.  A request runs to
\* its response before the next one (or a change of a privacy flag) starts;
\* its statements are still single steps, so the states between them are
\* states of the run.
Solo == CHOOSE w \in Workers : \A x \in Workers : w <= x

SeqNext ==
  \/ \E u \in Users, t \in UserIds : Begin(Solo, u, t)
  \/ Step(Solo)
  \/ \E u \in Users, b \in BOOLEAN : pc[Solo] = "done" /\ SetPrivacy(u, b)

SeqSpec == Init /\ [][SeqNext]_vars

\* ViewSpec: SeqSpec with the read handlers and the creation of posts.
ViewNext ==
  \/ SeqNext
  \/ \E u \in Users, t \in UserIds : GetFollowStatus(Solo, u, t)
  \/ \E v \in Viewers, t \in UserIds : GetProfile(Solo, v, t)
  \/ \E v \in Viewers, t \in UserIds : GetFollowers(Solo, v, t)
  \/ \E v \in Viewers, t \in UserIds : GetFollowing(Solo, v, t)
  \/ \E v \in Viewers, t \in UserIds : GetUserPosts(Solo, v, t)
  \/ \E u \in Users : pc[Solo] = "done" /\ PostCreate(u)

ViewSpec == Init /\ [][ViewNext]_vars

\* NotifSpec: SeqSpec with the two views that mark notifications read.
\* the ids a URL can carry: those of the rows the log can hold and one more
NotificationIds == 1..(MaxNotifs + 1)

NotifNext ==
  \/ SeqNext
  \/ \E u \in Users, n \in NotificationIds : MarkNotificationAsReadBegin(Solo, u, n)
  \/ MarkNotificationAsReadSave(Solo)
  \/ \E u \in Users : MarkAllNotificationsAsRead(Solo, u)

NotifSpec == Init /\ [][NotifNext]_vars

\* ============================================================== properties
\* ---------------------------------------------------------------------
\* C1: in every reachable state, under any interleaving of the follow
\* operations and of changes of the privacy flags, no ordered pair (A,B) has
\* both a FollowRequest(A,B) and a FollowEdge(A,B).
C1_RequestAndEdgeExclusive ==
  \A a \in Users, b \in Users : ~(<<a, b>> \in requests /\ <<a, b>> \in follows)

\* ---------------------------------------------------------------------
\* C2: accept_request(B,A) is atomic for concurrent readers: from the moment
\* it has found the request until it returns, the ledger never shows neither
\* nor both of FollowRequest(A,B) and FollowEdge(A,B).
AcceptActing(w) ==
  /\ op[w] = "accept"
  /\ pc[w] \in {"accept_create_edge", "accept_delete_request", "accept_notify", "accept_mark_read"}

C2_AcceptAtomic ==
  \A w \in Workers :
    AcceptActing(w) =>
      (<<arg[w], user[w]>> \in requests) # (<<arg[w], user[w]>> \in follows)

\* ---------------------------------------------------------------------
\* C3: of two concurrent request_follow(A,B) against a private B, one
\* persists the FollowRequest row and the other returns the Conflict error
\* (400, 'Follow request already sent'): a request_follow that comes to its
\* create when the row is already there ends with that error, and there are
\* never two rows.
C3_SecondCallGetsConflict ==
  [][\A w \in Workers :
       (/\ pc[w] = "follow_create"
        /\ snap[w]
        /\ <<user[w], arg[w]>> \in requests
        /\ pc'[w] = "done")
       => resp'[w] = Response(400, "Follow request already sent")]_vars

\* ---------------------------------------------------------------------
\* C4: FollowEdge(A,B) comes into being only by a request_follow(A,B) that
\* found B public or by accept_request(B,A); the accept creates it only while
\* a FollowRequest(A,B) is there, neither accepted, rejected nor cancelled
\* since, and such a request comes only from a request_follow(A,B) that found
\* B private; and the edge goes away only by unfollow_or_cancel(A,B).
C4_EdgeOrigins ==
  [][\A a \in Users, b \in Users :
       /\ (<<a, b>> \notin follows /\ <<a, b>> \in follows') =>
            \E w \in Workers :
              \/ /\ op[w] = "follow" /\ pc[w] = "follow_create"
                 /\ user[w] = a /\ arg[w] = b
                 /\ ~snap[w]
              \/ /\ op[w] = "accept" /\ pc[w] = "accept_create_edge"
                 /\ user[w] = b /\ arg[w] = a
                 /\ <<a, b>> \in requests
       /\ (<<a, b>> \notin requests /\ <<a, b>> \in requests') =>
            \E w \in Workers :
              /\ op[w] = "follow" /\ pc[w] = "follow_create"
              /\ user[w] = a /\ arg[w] = b
              /\ snap[w]
       /\ (<<a, b>> \in follows /\ <<a, b>> \notin follows') =>
            \E w \in Workers :
              /\ op[w] = "unfollow" /\ pc[w] = "unfollow_delete_edge"
              /\ user[w] = a /\ arg[w] = b]_vars

\* ---------------------------------------------------------------------
\* C5: for accounts V and T, get profile answers 403 'This account is
\* private' exactly when V is not T, T is private and there is no
\* FollowEdge(V,T), and the profile otherwise; so a pending FollowRequest(V,T)
\* alone gives no access, and after a successful accept_request(T,V) the
\* profile is given.
Blocked(v, t) == v # t /\ is_private[t] /\ <<v, t>> \notin follows

C5_ProfileExpected(v, t) ==
  IF Blocked(v, t) THEN Response(403, "This account is private") ELSE Response(200, "profile")

C6_ListExpected(v, t, full) == IF Blocked(v, t) THEN ListResponse({}) ELSE ListResponse(full)

C7_AnonExpected(t, full) == IF is_private[t] THEN ListResponse({}) ELSE ListResponse(full)

C7_AnonymousGate ==
  [][(user'[Solo] = Anonymous /\ arg'[Solo] \in Users) =>
       LET t == arg'[Solo]
       IN /\ (op'[Solo] = "user-detail" /\ GetProfile(Solo, Anonymous, t))
               => resp'[Solo] = IF is_private[t]
                                  THEN Response(403, "This account is private")
                                  ELSE Response(200, "profile")
          /\ (op'[Solo] = "user-followers" /\ GetFollowers(Solo, Anonymous, t))
               => resp'[Solo] = C7_AnonExpected(t, Followers(DB, t))
          /\ (op'[Solo] = "user-following" /\ GetFollowing(Solo, Anonymous, t))
               => resp'[Solo] = C7_AnonExpected(t, Following(DB, t))
          /\ (op'[Solo] = "user-posts" /\ GetUserPosts(Solo, Anonymous, t))
               => resp'[Solo] = C7_AnonExpected(t, PostsOf(DB, t))]_vars

\* ---------------------------------------------------------------------
\* C8: for accounts A # B with neither FollowEdge(A,B) nor FollowRequest(A,B)
\* and B private, request_follow(A,B) answers 200 'Follow request sent' and
\* leaves FollowRequest(A,B) in place, no FollowEdge(A,B), check_status(A,B)
\* 'requested', and the log longer by exactly one follow_request notification
\* from A to B; and the request that runs ends so.
C8_PrivateFollowIsRequested ==
  [][/\ pc[Solo] = "done" =>
          \A a \in Users, b \in Users :
            (a # b /\ is_private[b] /\ <<a, b>> \notin follows /\ <<a, b>> \notin requests) =>
              LET x == Call(DB, "follow", a, b)
              IN /\ x.r.resp = Response(200, "Follow request sent")
                 /\ <<a, b>> \in x.d.requests
                 /\ <<a, b>> \notin x.d.follows
                 /\ CheckFollowStatus(x.d, a, b) = Response(200, "requested")
                 /\ x.d.notifications =
                      Append(notifications, Notification(b, a, "follow_request", "wants to follow you"))
     /\ (FollowNotify(Solo) /\ snap[Solo]) =>
          /\ resp'[Solo] = Response(200, "Follow request sent")
          /\ <<user[Solo], arg[Solo]>> \in requests'
          /\ <<user[Solo], arg[Solo]>> \notin follows'
          /\ CheckFollowStatus(DB, user[Solo], arg[Solo])' = Response(200, "requested")
          /\ Len(notifications') = Len(notifications) + 1
          /\ notifications'[Len(notifications')] =
               Notification(arg[Solo], user[Solo], "follow_request", "wants to follow you")]_vars

\* a request_follow against a private account has been answered 'Follow request sent'
C8_Witness ==
  /\ pc[Solo] = "done" /\ op[Solo] = "follow"
  /\ resp[Solo] = Response(200, "Follow request sent")
  /\ is_private[arg[Solo]]
  /\ <<user[Solo], arg[Solo]>> \in requests
  /\ Len(notifications) = 1

\* ---------------------------------------------------------------------
\* C9: for accounts A # B with neither FollowEdge(A,B) nor FollowRequest(A,B)
\* and B public, request_follow(A,B) leaves FollowEdge(A,B) in place and
\* check_status(A,B) 'following', and in no state the operation passes through
\* is there a FollowRequest(A,B) or does check_status(A,B) say 'requested'.
C9_PublicFollowIsImmediate ==
  [][/\ pc[Solo] = "done" =>
          \A a \in Users, b \in Users :
            (a # b /\ ~is_private[b] /\ <<a, b>> \notin follows /\ <<a, b>> \notin requests) =>
              LET tr == Trace(DB, "follow", a, b)
                  x == tr[Len(tr)]
              IN /\ CheckFollowStatus(x.d, a, b) = Response(200, "following")
                 /\ <<a, b>> \in x.d.follows
                 /\ \A i \in 1..Len(tr) :
                      /\ <<a, b>> \notin tr[i].d.requests
                      /\ CheckFollowStatus(tr[i].d, a, b) # Response(200, "requested")
     /\ (pc[Solo] \in {"follow_create", "follow_notify"} /\ ~snap[Solo]) =>
          /\ <<user[Solo], arg[Solo]>> \notin requests
          /\ <<user[Solo], arg[Solo]>> \notin requests'
     /\ (FollowNotify(Solo) /\ ~snap[Solo]) =>
          /\ <<user[Solo], arg[Solo]>> \in follows'
          /\ CheckFollowStatus(DB, user[Solo], arg[Solo])' = Response(200, "following")]_vars

\* a request_follow against a public account has been answered and the edge is there
C9_Witness ==
  /\ pc[Solo] = "done" /\ op[Solo] = "follow"
  /\ resp[Solo] = Response(200, "followed")
  /\ ~is_private[arg[Solo]]
  /\ <<user[Solo], arg[Solo]>> \in follows
  /\ <<user[Solo], arg[Solo]>> \notin requests

\* ---------------------------------------------------------------------
\* C10: when accept_request(B,A) answers 'Follow request accepted',
\* check_status(A,B) is 'following', FollowEdge(A,B) exists and
\* FollowRequest(A,B) does not; accept_request(B,A) called again at once
\* answers 404 'No follow request found' and leaves the database as it was.
Accepted == Response(200, "Follow request accepted")
NoRequest == Response(404, "No follow request found")

C10_AcceptThenNotFound ==
  [][/\ pc[Solo] = "done" =>
          \A a \in Users, b \in Users :
            LET x == Call(DB, "accept", b, a)
                y == Call(x.d, "accept", b, a)
            IN /\ (<<a, b>> \in requests /\ <<a, b>> \notin follows) => x.r.resp = Accepted
               /\ x.r.resp = Accepted =>
                    /\ CheckFollowStatus(x.d, a, b) = Response(200, "following")
                    /\ <<a, b>> \in x.d.follows
                    /\ <<a, b>> \notin x.d.requests
                    /\ y.r.resp = NoRequest
                    /\ y.d = x.d
     /\ AcceptMarkRead(Solo) =>
          /\ resp'[Solo] = Accepted
          /\ <<arg[Solo], user[Solo]>> \in follows'
          /\ <<arg[Solo], user[Solo]>> \notin requests'
          /\ CheckFollowStatus(DB, arg[Solo], user[Solo])' = Response(200, "following")
     /\ (/\ op[Solo] = "accept" /\ pc[Solo] = "done" /\ resp[Solo] = Accepted
         /\ AcceptBegin(Solo, user[Solo], arg[Solo])) =>
          /\ pc'[Solo] = "accept_check"
          /\ accept_check(DB', Req(Solo)') = Ret(DB, Req(Solo)', NoRequest)]_vars

\* an accept_request called again right after the accepted one has been answered 404
C10_Witness ==
  /\ pc[Solo] = "done" /\ op[Solo] = "accept"
  /\ resp[Solo] = NoRequest
  /\ <<arg[Solo], user[Solo]>> \in follows
  /\ \E i \in 1..Len(notifications) :
       notifications[i] = Notification(arg[Solo], user[Solo], "follow_accept", "accepted your follow request")

\* the rows of Follow and FollowRequest (the ledger) and the log
Ledger == <<follows, requests>>
Tables == <<follows, requests, notifications>>

\* ---------------------------------------------------------------------
\* C11: request_follow(A,A) answers 400 'Cannot follow yourself' whatever
\* A's privacy flag and writes nothing; and, under any interleaving, no state
\* holds a FollowEdge(A,A) or a FollowRequest(A,A).
C11_NoSelfFollow ==
  [][/\ \A a \in Users :
          /\ <<a, a>> \notin follows /\ <<a, a>> \notin requests
          /\ <<a, a>> \notin follows' /\ <<a, a>> \notin requests'
     /\ \A w \in Workers :
          (/\ pc[w] = "done" /\ op'[w] = "follow" /\ user'[w] = arg'[w]
           /\ FollowBegin(w, user'[w], arg'[w])) =>
            /\ resp'[w] = Response(400, "Cannot follow yourself")
            /\ pc'[w] = "done"
            /\ UNCHANGED Tables]_vars

\* a public account has asked to follow itself and has been refused
C11_Witness ==
  \E w \in Workers :
    /\ pc[w] = "done" /\ op[w] = "follow" /\ user[w] = arg[w]
    /\ ~is_private[user[w]]
    /\ resp[w] = Response(400, "Cannot follow yourself")

\* ---------------------------------------------------------------------
\* C12: from a state with neither FollowEdge(A,B) nor FollowRequest(A,B),
\* request_follow(A,B) and then unfollow_or_cancel(A,B) both succeed and leave
\* the rows of Follow and FollowRequest exactly as they were before the
\* request, for a private and for a public B; the create adds the one row of
\* (A,B) and the delete takes away that row and no other.
C12_RoundTrip ==
  [][/\ pc[Solo] = "done" =>
          \A a \in Users, b \in Users :
            (a # b /\ <<a, b>> \notin follows /\ <<a, b>> \notin requests) =>
              LET x == Call(DB, "follow", a, b)
                  y == Call(x.d, "unfollow", a, b)
              IN /\ x.r.resp = IF is_private[b] THEN Response(200, "Follow request sent")
                                                ELSE Response(200, "followed")
                 /\ <<x.d.follows, x.d.requests>> # Ledger
                 /\ y.r.resp = IF is_private[b] THEN Response(200, "Follow request cancelled")
                                                ELSE Response(200, "Unfollowed")
                 /\ <<y.d.follows, y.d.requests>> = Ledger
     /\ FollowCreate(Solo) =>
          IF snap[Solo]
            THEN follows' = follows /\ requests' = requests \cup {<<user[Solo], arg[Solo]>>}
            ELSE requests' = requests /\ follows' = follows \cup {<<user[Solo], arg[Solo]>>}
     /\ UnfollowDeleteEdge(Solo) =>
          requests' = requests /\ follows' = follows \ {<<user[Solo], arg[Solo]>>}
     /\ UnfollowDeleteRequest(Solo) =>
          follows' = follows /\ requests' = requests \ {<<user[Solo], arg[Solo]>>}]_vars

\* a request that was filed (its notification is in the log) has been cancelled
\* and nothing is left of it in the ledger
C12_Witness ==
  /\ pc[Solo] = "done" /\ op[Solo] = "unfollow"
  /\ resp[Solo] = Response(200, "Follow request cancelled")
  /\ <<user[Solo], arg[Solo]>> \notin follows
  /\ <<user[Solo], arg[Solo]>> \notin requests
  /\ \E i \in 1..Len(notifications) :
       /\ notifications[i].recipient = arg[Solo]
       /\ notifications[i].actor = user[Solo]
       /\ notifications[i].notification_type = "follow_request"

\* ---------------------------------------------------------------------
\* C13: unfollow_or_cancel(A,B) deletes FollowEdge(A,B) and answers
\* 'Unfollowed' if the edge exists; otherwise deletes FollowRequest(A,B) and
\* answers 'Follow request cancelled' if the request exists; otherwise answers
\* 400 'Not following or requested' and changes nothing.  In each case nothing
\* else is written.
C13_UnfollowOrCancel ==
  [][/\ pc[Solo] = "done" =>
          \A a \in Users, b \in Users :
            LET y == Call(DB, "unfollow", a, b)
            IN IF <<a, b>> \in follows
                 THEN /\ y.r.resp = Response(200, "Unfollowed")
                      /\ y.d = [DB EXCEPT !.follows = @ \ {<<a, b>>}]
               ELSE IF <<a, b>> \in requests
                 THEN /\ y.r.resp = Response(200, "Follow request cancelled")
                      /\ y.d = [DB EXCEPT !.requests = @ \ {<<a, b>>}]
               ELSE /\ y.r.resp = Response(400, "Not following or requested")
                    /\ y.d = DB
     /\ UnfollowDeleteEdge(Solo) =>
          /\ <<user[Solo], arg[Solo]>> \in follows
          /\ resp'[Solo] = Response(200, "Unfollowed")
     /\ UnfollowDeleteRequest(Solo) =>
          /\ <<user[Solo], arg[Solo]>> \notin follows
          /\ <<user[Solo], arg[Solo]>> \in requests
          /\ resp'[Solo] = Response(200, "Follow request cancelled")
     /\ (UnfollowCheckRequest(Solo) /\ pc'[Solo] = "done") =>
          /\ <<user[Solo], arg[Solo]>> \notin follows
          /\ <<user[Solo], arg[Solo]>> \notin requests
          /\ resp'[Solo] = Response(400, "Not following or requested")
          /\ UNCHANGED Tables]_vars

\* an unfollow_or_cancel of a pair with neither edge nor request has been refused
C13_Witness ==
  /\ pc[Solo] = "done" /\ op[Solo] = "unfollow"
  /\ user[Solo] # arg[Solo]
  /\ resp[Solo] = Response(400, "Not following or requested")
  /\ follows # {}

\* the follow_request notifications B received from A are all read in log
RequestNotesRead(log, a, b) ==
  \A i \in 1..Len(log) :
    (/\ log[i].recipient = b /\ log[i].actor = a
     /\ log[i].notification_type = "follow_request") => log[i].is_read

\* ---------------------------------------------------------------------
\* C14: reject_request(B,A) with FollowRequest(A,B) present deletes that
\* request, marks the follow_request notification B got from A read, writes no
\* row of Follow and appends no notification; without the request it answers
\* 404 'No follow request found' and changes nothing.
C14_RejectFrame ==
  [][/\ pc[Solo] = "done" =>
          \A a \in Users, b \in Users :
            LET y == Call(DB, "reject", b, a)
            IN IF <<a, b>> \in requests
                 THEN /\ y.r.resp = Response(200, "Follow request rejected")
                      /\ y.d.requests = requests \ {<<a, b>>}
                      /\ y.d.follows = follows
                      /\ Len(y.d.notifications) = Len(notifications)
                      /\ RequestNotesRead(y.d.notifications, a, b)
                      /\ y.d.is_private = is_private /\ y.d.posts = posts
                 ELSE /\ y.r.resp = Response(404, "No follow request found")
                      /\ y.d = DB
     /\ RejectDelete(Solo) =>
          /\ requests' = requests \ {<<arg[Solo], user[Solo]>>}
          /\ follows' = follows /\ notifications' = notifications
     /\ RejectMarkRead(Solo) =>
          /\ resp'[Solo] = Response(200, "Follow request rejected")
          /\ UNCHANGED Ledger
          /\ Len(notifications') = Len(notifications)
          /\ RequestNotesRead(notifications', arg[Solo], user[Solo])
     /\ (RejectCheck(Solo) /\ pc'[Solo] = "done") =>
          /\ <<arg[Solo], user[Solo]>> \notin requests
          /\ resp'[Solo] = Response(404, "No follow request found")
          /\ UNCHANGED Tables]_vars

\* a request has been rejected: it is gone, no edge came of it, and its
\* notification is read
C14_Witness ==
  /\ pc[Solo] = "done" /\ op[Solo] = "reject"
  /\ resp[Solo] = Response(200, "Follow request rejected")
  /\ <<arg[Solo], user[Solo]>> \notin requests
  /\ <<arg[Solo], user[Solo]>> \notin follows
  /\ \E i \in 1..Len(notifications) :
       notifications[i] = [Notification(user[Solo], arg[Solo], "follow_request", "wants to follow you")
                             EXCEPT !.is_read = TRUE]

\* ---------------------------------------------------------------------
\* C15: request_follow(A,B) answers 400 'Already following' when
\* FollowEdge(A,B) exists and 400 'Follow request already sent' when
\* FollowRequest(A,B) exists, and in both cases writes no row and no
\* notification, whatever B's privacy flag is now: a pending request to a B
\* that has become public is not turned into an edge.
C15_DuplicateFollowRefused ==
  [][/\ pc[Solo] = "done" =>
          \A a \in Users, b \in Users :
            LET x == Call(DB, "follow", a, b)
            IN /\ <<a, b>> \in follows =>
                    x.r.resp = Response(400, "Already following") /\ x.d = DB
               /\ (<<a, b>> \notin follows /\ <<a, b>> \in requests) =>
                    x.r.resp = Response(400, "Follow request already sent") /\ x.d = DB
     /\ (FollowCheckEdge(Solo) /\ <<user[Solo], arg[Solo]>> \in follows) =>
          /\ pc'[Solo] = "done"
          /\ resp'[Solo] = Response(400, "Already following")
          /\ UNCHANGED Tables
     /\ (FollowCheckRequest(Solo) /\ <<user[Solo], arg[Solo]>> \in requests) =>
          /\ pc'[Solo] = "done"
          /\ resp'[Solo] = Response(400, "Follow request already sent")
          /\ UNCHANGED Tables]_vars

\* a second request_follow to an account that has become public since the
\* first has been refused, and the request is still pending
C15_Witness ==
  /\ pc[Solo] = "done" /\ op[Solo] = "follow"
  /\ resp[Solo] = Response(400, "Follow request already sent")
  /\ ~is_private[arg[Solo]]
  /\ <<user[Solo], arg[Solo]>> \in requests
  /\ <<user[Solo], arg[Solo]>> \notin follows

\* ---------------------------------------------------------------------
\* C16: every error answered by request_follow, accept_request,
\* reject_request and unfollow_or_cancel, also when requests run concurrently,
\* is one of the 400 / 404 answers, is given without writing to the ledger or
\* the log, and is given again when the same call is repeated on the state it
\* left.
C16_ErrorsDeterministic ==
  [][\A w \in Workers :
       (/\ Req(w)' # Req(w)
        /\ pc'[w] = "done"
        /\ resp'[w].status >= 400) =>
         /\ resp'[w].status \in {400, 404}
         /\ UNCHANGED Tables
         /\ Call(DB', op'[w], user'[w], arg'[w]).r.resp = resp'[w]]_vars

\* the ordered pair the request of worker w is about: <<follower, followed>>
PairOf(w) ==
  IF op[w] \in {"follow", "unfollow"} THEN <<user[w], arg[w]>> ELSE <<arg[w], user[w]>>

\* database d with the rows of the ordered pair p set: edge iff e, request iff q
WithPair(d, p, e, q) ==
  [d EXCEPT !.follows = IF e THEN @ \cup {p} ELSE @ \ {p},
            !.requests = IF q THEN @ \cup {p} ELSE @ \ {p}]

\* ---------------------------------------------------------------------
\* C17: what each statement of request_follow(A,B) answers and writes is the
\* same whether or not FollowEdge(B,A) or FollowRequest(B,A) exists (so the
\* outcome of the call is), and every statement of a follow, unfollow, accept
\* or reject changes the rows of the ordered pair it is about and of no other
\* pair, (B,A) included; under any interleaving.
C17_PairsIndependent ==
  [][/\ \A w \in Workers :
          (op'[w] = "follow" /\ Req(w)' # Req(w)) =>
            \A e \in BOOLEAN, q \in BOOLEAN :
              LET rev == <<arg'[w], user'[w]>>
                  d0 == WithPair(DB, rev, e, q)
                  y == IF pc[w] = "done" THEN follow_fetch(d0, user'[w], arg'[w])
                                        ELSE Exec(d0, Req(w))
              IN y = [d |-> WithPair(DB', rev, e, q), r |-> Req(w)']
     /\ (follows' # follows \/ requests' # requests) =>
          \A p \in Users \X Users :
            ((p \in follows) # (p \in follows') \/ (p \in requests) # (p \in requests')) =>
              \E w \in Workers :
                /\ pc[w] # "done" /\ pc'[w] # pc[w]
                /\ op[w] \in {"follow", "unfollow", "accept", "reject"}
                /\ p = PairOf(w)]_vars

\* A, whom B already follows, has asked to follow the private B and the
\* request is pending all the same
C17_Witness ==
  \E w \in Workers :
    /\ pc[w] = "done" /\ op[w] = "follow"
    /\ resp[w] = Response(200, "Follow request sent")
    /\ <<arg[w], user[w]>> \in follows
    /\ <<user[w], arg[w]>> \in requests

\* ---------------------------------------------------------------------
\* C18: check_status(A,B) answers 'self' if A is B, else 'following' if
\* FollowEdge(A,B) exists, else 'requested' if FollowRequest(A,B) exists, else
\* 'not_following' (so also for every combination of the two rows, the one
\* with both included); and it writes nothing.
C18_StatusExpected(a, b) ==
  IF a = b THEN "self"
  ELSE IF <<a, b>> \in follows THEN "following"
  ELSE IF <<a, b>> \in requests THEN "requested"
  ELSE "not_following"

C18_CheckStatusPure ==
  [][(/\ op'[Solo] = "follow-status" /\ arg'[Solo] \in Users
      /\ GetFollowStatus(Solo, user'[Solo], arg'[Solo])) =>
       /\ resp'[Solo] = Response(200, C18_StatusExpected(user'[Solo], arg'[Solo]))
       /\ UNCHANGED <<is_private, follows, requests, notifications, posts>>
       /\ \A e \in BOOLEAN, q \in BOOLEAN :
            CheckFollowStatus(WithPair(DB, <<user'[Solo], arg'[Solo]>>, e, q),
                              user'[Solo], arg'[Solo]) =
              Response(200, IF user'[Solo] = arg'[Solo] THEN "self"
                            ELSE IF e THEN "following"
                            ELSE IF q THEN "requested"
                            ELSE "not_following")]_vars

\* check_status has answered 'requested' for a pending request
C18_Witness ==
  /\ pc[Solo] = "done" /\ op[Solo] = "follow-status"
  /\ resp[Solo] = Response(200, "requested")
  /\ <<user[Solo], arg[Solo]>> \in requests

\* log after a successful accept_request(b, a): the follow_request
\* notifications b holds from a read, every other row as it was, and the
\* follow_accept notification for a appended
C19_LogExpected(log, a, b) ==
  [i \in 1..Len(log) |->
     IF /\ log[i].recipient = b /\ log[i].actor = a
        /\ log[i].notification_type = "follow_request"
       THEN [log[i] EXCEPT !.is_read = TRUE]
       ELSE log[i]]
    \o <<Notification(a, b, "follow_accept", "accepted your follow request")>>

\* ---------------------------------------------------------------------
\* C19: an accept_request(B,A) that succeeds appends exactly one
\* notification, Notification(recipient=A, actor=B, follow_accept), marks the
\* follow_request notification B holds from A read, and changes the read flag
\* of no notification of another type, recipient or actor, whatever older
\* notification the log holds.
C19_AcceptNotifies ==
  [][/\ pc[Solo] = "done" =>
          \A a \in Users, b \in Users :
            (<<a, b>> \in requests /\ <<a, b>> \notin follows) =>
              /\ Call(DB, "accept", b, a).d.notifications = C19_LogExpected(notifications, a, b)
              /\ \A r \in Users, c \in Users, t \in NotificationTypes :
                   LET log == <<Notification(r, c, t, "older")>> \o notifications
                       x == Call([DB EXCEPT !.notifications = log], "accept", b, a)
                   IN /\ x.r.resp = Accepted
                      /\ x.d.notifications = C19_LogExpected(log, a, b)
                      /\ x.d.notifications[1].is_read
                           = (r = b /\ c = a /\ t = "follow_request")
     /\ AcceptNotify(Solo) =>
          notifications' =
            Append(notifications,
                   Notification(arg[Solo], user[Solo], "follow_accept", "accepted your follow request"))
     /\ AcceptMarkRead(Solo) =>
          /\ resp'[Solo] = Accepted
          /\ Len(notifications') = Len(notifications)
          /\ \A i \in 1..Len(notifications) :
               notifications'[i] =
                 IF /\ notifications[i].recipient = user[Solo]
                    /\ notifications[i].actor = arg[Solo]
                    /\ notifications[i].notification_type = "follow_request"
                   THEN [notifications[i] EXCEPT !.is_read = TRUE]
                   ELSE notifications[i]]_vars

\* an accept has succeeded: the log is the request's notification, read, and
\* the accept's, unread
C19_Witness ==
  /\ pc[Solo] = "done" /\ op[Solo] = "accept" /\ resp[Solo] = Accepted
  /\ notifications =
       << [Notification(user[Solo], arg[Solo], "follow_request", "wants to follow you")
             EXCEPT !.is_read = TRUE],
          Notification(arg[Solo], user[Solo], "follow_accept", "accepted your follow request") >>

\* log with the read flag set on the rows of recipient u among the rows in ids
ReadBy(log, u, ids) ==
  [i \in 1..Len(log) |->
     IF i \in ids /\ log[i].recipient = u THEN [log[i] EXCEPT !.is_read = TRUE] ELSE log[i]]

\* ---------------------------------------------------------------------
\* C20: mark_read(n, owner) sets the read flag of notification n, and
\* nothing else, when owner is its recipient; for any other caller (and for
\* an id that names no notification) it answers 404 'Notification not found'
\* and changes nothing.  mark_all_read(owner) sets the read flag of owner's
\* notifications and touches no other row.  So no step of either changes a
\* notification of another user.
C20_MarkReadOwnOnly ==
  [][/\ pc[Solo] = "done" =>
          \A u \in Users :
            /\ \A n \in NotificationIds :
                 LET x == Call(DB, "mark-read", u, n)
                 IN IF n \in 1..Len(notifications) /\ notifications[n].recipient = u
                      THEN /\ x.r.resp = Response(200, "Notification marked as read")
                           /\ x.d = [DB EXCEPT !.notifications = ReadBy(notifications, u, {n})]
                      ELSE /\ x.r.resp = Response(404, "Notification not found")
                           /\ x.d = DB
            /\ Call(DB, "mark-all-read", u, u).d =
                 [DB EXCEPT !.notifications = ReadBy(notifications, u, 1..Len(notifications))]
     /\ (op'[Solo] \in {"mark-read", "mark-all-read"} /\ Req(Solo)' # Req(Solo)) =>
          /\ UNCHANGED <<is_private, follows, requests, posts>>
          /\ Len(notifications') = Len(notifications)
          /\ \A i \in 1..Len(notifications) :
               notifications'[i] # notifications[i] =>
                 /\ notifications[i].recipient = user'[Solo]
                 /\ notifications'[i] = [notifications[i] EXCEPT !.is_read = TRUE]
                 /\ op'[Solo] = "mark-read" => i = arg'[Solo]]_vars

\* a user has tried to mark another user's unread notification and was
\* answered not-found; the notification is still unread
C20_Witness ==
  /\ pc[Solo] = "done" /\ op[Solo] = "mark-read"
  /\ resp[Solo] = Response(404, "Notification not found")
  /\ arg[Solo] \in 1..Len(notifications)
  /\ notifications[arg[Solo]].recipient # user[Solo]
  /\ ~notifications[arg[Solo]].is_read


\* C21: the notification log is append-only under follow, accept, reject,
\* unfollow, like (and unlike) and the two mark-read views: no step removes a
\* row, and a row that exists keeps its recipient, actor, type and message;
\* the one change a row can take is its read flag going from unread to read.
C21_LogAppendOnly ==
  [][/\ Len(notifications') >= Len(notifications)
     /\ \A i \in 1..Len(notifications) :
          \/ notifications'[i] = notifications[i]
          \/ /\ ~notifications[i].is_read
             /\ notifications'[i] = [notifications[i] EXCEPT !.is_read = TRUE]]_vars

\* a like has been notified after an earlier notification was marked read
C21_Witness ==
  /\ Len(notifications) = 2
  /\ notifications[1].is_read
  /\ notifications[1].notification_type = "follow_request"
  /\ notifications[2].notification_type = "like"
  /\ op[Solo] = "like" /\ resp[Solo] = Response(200, "liked")

\* LikeSpec: the like views of every worker run concurrently, on the posts created.
LikeNext ==
  \/ \E u \in Users : PostCreate(u)
  \/ \E w \in Workers : LikeStep(w)

LikeSpec == Init /\ [][LikeNext]_vars


\* the Like rows of post p
LikeRows(ls, p) == {u \in Users : <<u, p>> \in ls}

\* C30: after any sequence of like and unlike requests, concurrent ones of
\* different users on one post included, likes_count of a post equals the
\* number of its Like rows once no request is under way; a like of a post the
\* user has liked is answered 'Already liked' and an unlike of a post the user
\* has not liked is answered 'Not liked', both leaving likes_count as it was.
C30_CountMatchesRows ==
  [][/\ (\A w \in Workers : pc'[w] = "done") =>
          \A p \in PostIds : likes_count'[p] = Cardinality(LikeRows(likes', p))
     /\ \A w \in Workers :
          /\ (pc[w] = "like_get_or_create" /\ pc'[w] # pc[w] /\ <<user[w], arg[w]>> \in likes) =>
               /\ resp'[w] = Response(400, "Already liked")
               /\ UNCHANGED <<likes, likes_count>>
          /\ (pc[w] = "unlike_get" /\ pc'[w] # pc[w] /\ <<user[w], arg[w]>> \notin likes) =>
               /\ resp'[w] = Response(400, "Not liked")
               /\ UNCHANGED <<likes, likes_count>>]_vars

\* LogSpec: NotifSpec with the like views, one request at a time.
LogNext ==
  \/ NotifNext
  \/ \E u \in Users : pc[Solo] = "done" /\ PostCreate(u)
  \/ LikeStep(Solo)

LogSpec == Init /\ [][LogNext]_vars

\* DeviceSpec: accounts are verified and log in, and the device views are
\* called, one request at a time.
DeviceNext ==
  \/ \E u \in Users : VerifyOtpBegin(Solo, u, RegisterCode)
  \/ VerifyOtpSave(Solo) \/ VerifyOtpUpdate(Solo) \/ VerifyOtpToken(Solo)
  \/ \E u \in Users : LoginBegin(Solo, u, "right")
  \/ LoginToken(Solo) \/ LoginDevice(Solo)
  \/ \E k \in TokenIds : DeviceList(Solo, k)
  \/ \E k \in TokenIds, dev \in DeviceIds : LogoutDeviceBegin(Solo, k, dev)
  \/ LogoutDeviceSave(Solo)
  \/ \E k \in TokenIds, cur \in {0} \cup DeviceIds : LogoutAll(Solo, k, cur)

DeviceSpec == Init /\ [][DeviceNext]_vars

\* the devices after every device of user u but device cur is deactivated
OthersLoggedOut(ds, u, cur) ==
  [i \in 1..Len(ds) |-> IF ds[i].user = u /\ i # cur THEN [ds[i] EXCEPT !.is_active = FALSE]
                        ELSE ds[i]]

\* C22: a logout of all devices that names the caller's current device by
\* its current_session_token deactivates every other device of the caller,
\* leaves the named device as it was (active), and changes no device of
\* another user.
C22_LogoutAllKeepsCurrent ==
  pc[Solo] = "done" =>
    \A k \in TokenIds, cur \in DeviceIds :
      LET u == AuthUser(ADB, k)
          x == logout_all(ADB, k, cur)
      IN (u \in Users /\ cur \in 1..Len(devices) /\ devices[cur].user = u) =>
           /\ x.r.resp.status = 200
           /\ x.d = [ADB EXCEPT !.devices = OthersLoggedOut(devices, u, cur)]

\* C23: a logout of a single device that is already inactive is answered
\* 404, so that of the logout-device requests for one device at most one
\* succeeds: a request that succeeds found the device active.
C23_LogoutInactiveNotFound ==
  [][/\ pc[Solo] = "done" =>
          \A k \in TokenIds, dev \in DeviceIds :
            (/\ AuthUser(ADB, k) \in Users
             /\ dev \in 1..Len(devices)
             /\ ~devices[dev].is_active)
            => LET x == logout_device_get(ADB, k, dev)
               IN x.r.pc = "done" /\ x.r.resp = Response(404, "Device not found")
     /\ (/\ pc[Solo] = "logout_device_save" /\ pc'[Solo] = "done"
         /\ resp'[Solo].status = 200)
        => devices[arg[Solo]].is_active]_vars

\* C24: a logout-device request for a device of another user is answered
\* 404 and leaves the device as it was; no step of a logout-device or
\* logout-all request of a user changes a device of another user.
C24_OtherUsersDevicesKept ==
  [][/\ pc[Solo] = "done" =>
          \A k \in TokenIds, dev \in DeviceIds :
            LET u == AuthUser(ADB, k)
                x == logout_device_get(ADB, k, dev)
                y == logout_all(ADB, k, dev)
            IN /\ (u \in Users /\ dev \in 1..Len(devices) /\ devices[dev].user # u) =>
                    /\ x.r.pc = "done"
                    /\ x.r.resp = Response(404, "Device not found")
                    /\ x.d = ADB
               /\ Len(y.d.devices) = Len(devices)
               /\ \A i \in 1..Len(devices) :
                    devices[i].user # u => y.d.devices[i] = devices[i]
     /\ pc[Solo] = "logout_device_save" =>
          /\ Len(devices') = Len(devices)
          /\ \A i \in 1..Len(devices) :
               devices[i].user # user[Solo] => devices'[i] = devices[i]]_vars

\* a user has asked to log out an active device of another user, was
\* answered not-found, and the device is still active
C24_Witness ==
  /\ pc[Solo] = "done" /\ op[Solo] = "logout-device"
  /\ resp[Solo] = Response(404, "Device not found")
  /\ \E k \in TokenIds, dev \in 1..Len(devices) :
       /\ AuthUser(ADB, k) \in Users
       /\ devices[dev].user # AuthUser(ADB, k)
       /\ devices[dev].is_active
       /\ logout_device_get(ADB, k, dev).r = AReq(Solo)

\* C25: once a logout (of a single device, or of all devices) has succeeded,
\* the token the user made the request with is blacklisted, and a later
\* request that carries a blacklisted token is rejected with 401.
C25_LogoutBlacklistsToken ==
  [][/\ pc[Solo] = "done" =>
          \A k \in TokenIds :
            /\ \A cur \in {0} \cup DeviceIds :
                 LET x == logout_all(ADB, k, cur)
                 IN x.r.resp.status = 200 => k \in x.d.blacklist
            /\ k \in blacklist => device_list(ADB, k).r.resp = Unauthorized
     /\ (/\ pc[Solo] = "logout_device_save" /\ pc'[Solo] = "done"
         /\ resp'[Solo].status = 200)
        => token[Solo] \in blacklist']_vars

\* FeedSpec: ViewSpec with the general listing of posts.
FeedNext ==
  \/ ViewNext
  \/ \E v \in Viewers : GetPosts(Solo, v)

FeedSpec == Init /\ [][FeedNext]_vars

\* C26: the general listing of posts shows a viewer no post of a private
\* account that the viewer does not follow (and is not); the posts of a
\* private account come into the listing of a requester once the account
\* has accepted the request.
C26_FeedHidesPrivatePosts ==
  [][op'[Solo] = "posts" =>
       /\ resp'[Solo].status = 200
       /\ resp'[Solo].list =
            {i \in 1..Len(posts) :
               \/ ~is_private[posts[i].user]
               \/ posts[i].user = user'[Solo]
               \/ <<user'[Solo], posts[i].user>> \in follows}]_vars

\* C27: once unfollow_or_cancel(A,B) has returned 'Follow request cancelled',
\* A does not come to follow B unless by a new request_follow(A,B): an
\* accept_request(B,A) that runs concurrently does not create FollowEdge(A,B)
\* after the cancel has succeeded (the request is gone and has not been
\* made anew).
C27_CancelBeatsAccept ==
  [][\A w \in Workers, c \in Workers :
       (/\ pc[w] = "accept_create_edge" /\ pc'[w] # pc[w]
        /\ pc[c] = "done" /\ op[c] = "unfollow"
        /\ resp[c].status = 200 /\ resp[c].detail = "Follow request cancelled"
        /\ user[c] = arg[w] /\ arg[c] = user[w]
        /\ <<user[c], arg[c]>> \notin requests
        /\ <<user[c], arg[c]>> \notin follows)
       => <<user[c], arg[c]>> \notin follows']_vars

\* OtpSpec: the views that take one-time codes run concurrently on every
\* worker, while time passes.  One worker also serves the views that create
\* the codes, the login and the profile view.
\* the views that take a code
TakeStep(w) ==
  \/ \E u \in Users, c \in Codes : VerifyOtpBegin(w, u, c)
  \/ VerifyOtpSave(w) \/ VerifyOtpUpdate(w) \/ VerifyOtpToken(w)
  \/ \E u \in Users, c \in Codes \cup {0} : Verify2faBegin(w, u, c)
  \/ Verify2faUpdate(w) \/ Verify2faToken(w) \/ Verify2faDevice(w)
  \/ \E u \in Users, c \in Codes, strong \in BOOLEAN : ResetConfirmBegin(w, u, c, strong)
  \/ ResetSave(w) \/ ResetUpdate(w)

\* the views that create a code, the login and the profile view
MakeStep(w) ==
  \/ \E u \in UserIds, pw \in {"missing", "wrong", "right"} : LoginBegin(w, u, pw)
  \/ \E c \in Codes, sent \in BOOLEAN : LoginOtp(w, c, sent)
  \/ LoginToken(w) \/ LoginDevice(w)
  \/ \E u \in UserIds, c \in Codes, sent \in BOOLEAN : ResetRequest(w, u, c, sent)
  \/ \E k \in TokenIds, b \in BOOLEAN : SetTwoFactor(w, k, b)

OtpNext ==
  \/ \E w \in Workers : TakeStep(w)
  \/ MakeStep(Solo)
  \/ Tick

OtpSpec == Init /\ [][OtpNext]_vars

\* worker w's step takes (marks used) a code of purpose p that was unused:
\* one given to the user of its request, with the code the request gives
Takes(w, p) ==
  \E i \in 1..Len(otps) :
    /\ otps[i].user = user[w] /\ otps[i].purpose = p /\ otps[i].code = arg[w]
    /\ ~otps[i].is_used /\ otps'[i].is_used

\* C28: a one-time code is single-use, also under concurrent requests: a
\* request that goes on past the marking of its code (VerifyOTPView,
\* Verify2FAView, ResetPasswordConfirmView) has itself marked an unused code
\* used, so that no two requests succeed on one code; and when the codes of
\* a user and purpose are all used, an attempt is answered 'Invalid or
\* expired code'.
C28_OtpSingleUse ==
  [][/\ \A w \in Workers :
          /\ (pc[w] = "verify_otp_update" /\ pc'[w] = "verify_otp_token") => Takes(w, "register")
          /\ (pc[w] = "verify2fa_update" /\ pc'[w] = "verify2fa_token") => Takes(w, "login")
          /\ (pc[w] = "reset_update" /\ pc'[w] = "done") => Takes(w, "reset")
     /\ \A u \in Users, c \in Codes :
          /\ UnusedOtps(ADB, u, "register") = {} =>
               verify_otp_validate(ADB, u, c).r.resp = Response(400, "Invalid or expired code")
          /\ UnusedOtps(ADB, u, "login") = {} =>
               verify2fa_check(ADB, u, c).r.resp = Response(400, "Invalid or expired code")
          /\ UnusedOtps(ADB, u, "reset") = {} =>
               reset_validate(ADB, u, c, TRUE).r.resp = Response(400, "Invalid or expired code")]_vars

\* C29: the password login issues no token and creates no device for an
\* account that is not verified; for an account with two-factor login the
\* tokens are issued only by Verify2FAView, by a request that has taken an
\* unused, unexpired 'login' code of the account; a 'login' code is created
\* only by LoginView after the credentials were found valid; and
\* Verify2FAView accepts no 'register' or 'reset' code.
C29_LoginIssuesTokens ==
  [][/\ \A w \in Workers :
          /\ pc[w] \in {"login_token", "login_device"} =>
               /\ is_verified[user[w]]
               /\ op[w] = "login"
          /\ (pc[w] = "verify2fa_update" /\ pc'[w] = "verify2fa_token") =>
               /\ Takes(w, "login")
               /\ \A i \in 1..Len(otps) :
                    otps'[i] # otps[i] =>
                      /\ otps[i].purpose = "login" /\ otps[i].user = user[w]
                      /\ otps[i].expires_at >= at[w]
     /\ \A u \in Users, c \in Codes :
          /\ LiveOtps(ADB, u, "login", c, now) = {} => verify2fa_check(ADB, u, c).r.pc = "done"
          /\ login_authenticate(ADB, u, "right").r.pc = "login_token" =>
               is_verified[u] /\ ~two_factor_enabled[u]
          /\ login_authenticate(ADB, u, "right").r.pc = "login_otp" => is_verified[u]
          /\ login_authenticate(ADB, u, "wrong").r.pc = "done"
     /\ Len(tokens') > Len(tokens) =>
          \E w \in Workers : pc[w] \in {"login_token", "verify2fa_token", "verify_otp_token"}
     /\ (Len(otps') > Len(otps) /\ otps'[Len(otps')].purpose = "login") =>
          \E w \in Workers : pc[w] = "login_otp" /\ otps'[Len(otps')].user = user[w]]_vars

====
